---- MODULE Spec2Model ----
(***************************************************************************)
(* Conversion of an OpenTelemetry span (export.SpanData) into a Datadog    *)
(* span (ddSpan): span.go, convertSpan and the attribute dispatch setTag,  *)
(* setMetric, setStringTag, setError.                                      *)
(*                                                                         *)
(* Representation.                                                         *)
(*  - A Go map is a TLA+ function whose domain is the set of present keys. *)
(*  - A label.Value is the record [vtype, numeric, stringly, array], the   *)
(*    fields of the Go struct; a bool is numeric 1 or 0.                   *)
(*  - A float64 is represented by the integer it equals: the value domain  *)
(*    holds integral floats only, on which float64(int) is exact.          *)
(*  - A uint64 identifier is the sequence of its four 16-bit limbs, most   *)
(*    significant first (TLC integers are 32 bits wide).                   *)
(***************************************************************************)
EXTENDS Integers, Sequences, FiniteSets, TLC

VARIABLES
    opts,     \* e.opts of the traceExporter: Service and GlobalTags
    sd,       \* the *export.SpanData handed to convertSpan
    span,     \* the *ddSpan under construction / returned
    before,   \* the ddSpan as it was before the last call
    call,     \* the last call: its function and arguments
    calls     \* number of calls made so far

vars == <<opts, sd, span, before, call, calls>>

(***************************************************************************)
(* Bounds of the model.                                                    *)
(***************************************************************************)
MaxGlobalTags == 2
MaxAttributes == 2
MaxStatusCode == 17

(***************************************************************************)
(* Constants of the program and of the packages it imports.                *)
(***************************************************************************)
keySamplingPriority == "_sampling_priority_v1"
keyStatusDescription == "opentelemetry.status_description"
keyStatusCode == "opentelemetry.status_code"
keyStatus == "opentelemetry.status"
keySpanName == "span.name"
keySamplingPriorityRate == "_sampling_priority_rate_v1"

extError == "error"
extErrorMsg == "error.msg"
extErrorType == "error.type"
extServiceName == "service.name"
extResourceName == "resource.name"
extSpanType == "span.type"
extAnalyticsEvent == "analytics.event"
extEventSampleRate == "_dd1.sr.eausr"
extSamplingPriority == "sampling.priority"

SpanKindUnspecified == "SpanKindUnspecified"
SpanKindInternal == "SpanKindInternal"
SpanKindServer == "SpanKindServer"
SpanKindClient == "SpanKindClient"

\* statusCodes: (*trace.SpanData).Status.Code -> message and http status code.
statusCodes ==
    [c \in 0..16 |->
        CASE c = 0 -> [message |-> "OK", status |-> 200]
          [] c = 1 -> [message |-> "CANCELLED", status |-> 499]
          [] c = 2 -> [message |-> "UNKNOWN", status |-> 500]
          [] c = 3 -> [message |-> "INVALID_ARGUMENT", status |-> 400]
          [] c = 4 -> [message |-> "DEADLINE_EXCEEDED", status |-> 504]
          [] c = 5 -> [message |-> "NOT_FOUND", status |-> 404]
          [] c = 6 -> [message |-> "ALREADY_EXISTS", status |-> 409]
          [] c = 7 -> [message |-> "PERMISSION_DENIED", status |-> 403]
          [] c = 8 -> [message |-> "RESOURCE_EXHAUSTED", status |-> 429]
          [] c = 9 -> [message |-> "FAILED_PRECONDITION", status |-> 400]
          [] c = 10 -> [message |-> "ABORTED", status |-> 409]
          [] c = 11 -> [message |-> "OUT_OF_RANGE", status |-> 400]
          [] c = 12 -> [message |-> "UNIMPLEMENTED", status |-> 501]
          [] c = 13 -> [message |-> "INTERNAL", status |-> 500]
          [] c = 14 -> [message |-> "UNAVAILABLE", status |-> 503]
          [] c = 15 -> [message |-> "DATA_LOSS", status |-> 501]
          [] c = 16 -> [message |-> "UNAUTHENTICATED", status |-> 401]]

(***************************************************************************)
(* Go maps.                                                                *)
(***************************************************************************)
EmptyMeta == [k \in {} |-> ""]
EmptyMetrics == [k \in {} |-> 0]

\* m[k] = v
MapSet(m, k, v) == [x \in (DOMAIN m) \cup {k} |-> IF x = k THEN v ELSE m[x]]

(***************************************************************************)
(* label.Value and its accessors.                                          *)
(***************************************************************************)
StringValue(v) == [vtype |-> "STRING", numeric |-> 0, stringly |-> v, array |-> <<>>]
BoolValue(b) == [vtype |-> "BOOL", numeric |-> IF b THEN 1 ELSE 0, stringly |-> "", array |-> <<>>]
Int32Value(i) == [vtype |-> "INT32", numeric |-> i, stringly |-> "", array |-> <<>>]
Int64Value(i) == [vtype |-> "INT64", numeric |-> i, stringly |-> "", array |-> <<>>]
Uint32Value(i) == [vtype |-> "UINT32", numeric |-> i, stringly |-> "", array |-> <<>>]
Uint64Value(i) == [vtype |-> "UINT64", numeric |-> i, stringly |-> "", array |-> <<>>]
Float32Value(f) == [vtype |-> "FLOAT32", numeric |-> f, stringly |-> "", array |-> <<>>]
Float64Value(f) == [vtype |-> "FLOAT64", numeric |-> f, stringly |-> "", array |-> <<>>]
ArrayValue(a) == [vtype |-> "ARRAY", numeric |-> 0, stringly |-> "", array |-> a]
InvalidValue == [vtype |-> "INVALID", numeric |-> 0, stringly |-> "", array |-> <<>>]

AsBool(val) == val.numeric # 0

\* strconv.FormatInt(n, 10)
Digit(d) == SubSeq(<<"0", "1", "2", "3", "4", "5", "6", "7", "8", "9">>, d + 1, d + 1)[1]

RECURSIVE FormatNat(_)
FormatNat(n) == IF n < 10 THEN Digit(n) ELSE FormatNat(n \div 10) \o Digit(n % 10)

FormatInt(n) == IF n < 0 THEN "-" \o FormatNat(0 - n) ELSE FormatNat(n)

\* fmt.Sprintf("%v", a) of a slice of integers: "[1 2 3]"
RECURSIVE JoinInts(_)
JoinInts(a) ==
    IF Len(a) = 0 THEN ""
    ELSE IF Len(a) = 1 THEN FormatInt(a[1])
    ELSE FormatInt(a[1]) \o " " \o JoinInts(Tail(a))

SprintfV(a) == "[" \o JoinInts(a) \o "]"

(***************************************************************************)
(* Identifiers.                                                            *)
(***************************************************************************)
\* binary.BigEndian.Uint64(b) of 8 bytes, as four 16-bit limbs
BigEndianUint64(b) == [i \in 1..4 |-> b[2 * i - 1] * 256 + b[2 * i]]

Zero64 == <<0, 0, 0, 0>>

\* trace.SpanID.IsValid: the identifier is not all zero bytes
IsValid(id) == \E i \in 1..Len(id) : id[i] # 0

(***************************************************************************)
(* The attribute dispatch.                                                 *)
(***************************************************************************)
\* Mutant of setMetric: the sampling priority is stored under its original key.
setMetric_noRename(s, key, v) == [s EXCEPT !.Metrics = MapSet(s.Metrics, key, v)]

setMetric(s, key, v) ==
    IF key = extSamplingPriority
    THEN [s EXCEPT !.Metrics = MapSet(s.Metrics, keySamplingPriority, v)]
    ELSE [s EXCEPT !.Metrics = MapSet(s.Metrics, key, v)]

\* Mutant of setStringTag: only the literal "true" marks an analytics event.
setStringTag_trueOnly(s, key, v) ==
    CASE key = extServiceName -> [s EXCEPT !.Service = v]
      [] key = extResourceName -> [s EXCEPT !.Resource = v]
      [] key = extSpanType -> [s EXCEPT !.Type = v]
      [] key = extAnalyticsEvent ->
            IF v = "true"
            THEN setMetric(s, extEventSampleRate, 1)
            ELSE setMetric(s, extEventSampleRate, 0)
      [] key = keySpanName -> [s EXCEPT !.Name = v]
      [] OTHER -> [s EXCEPT !.Meta = MapSet(s.Meta, key, v)]

setStringTag(s, key, v) ==
    CASE key = extServiceName -> [s EXCEPT !.Service = v]
      [] key = extResourceName -> [s EXCEPT !.Resource = v]
      [] key = extSpanType -> [s EXCEPT !.Type = v]
      [] key = extAnalyticsEvent ->
            IF v # "false"
            THEN setMetric(s, extEventSampleRate, 1)
            ELSE setMetric(s, extEventSampleRate, 0)
      [] key = keySpanName -> [s EXCEPT !.Name = v]
      [] OTHER -> [s EXCEPT !.Meta = MapSet(s.Meta, key, v)]

\* Mutant of setError: a false, non-positive or invalid value leaves the flag as it was.
setError_neverCleared(s, val) ==
    CASE val.vtype = "STRING" ->
            [s EXCEPT !.Error = 1, !.Meta = MapSet(s.Meta, extErrorMsg, val.stringly)]
      [] val.vtype = "BOOL" -> IF AsBool(val) THEN [s EXCEPT !.Error = 1] ELSE s
      [] val.vtype \in {"INT32", "INT64", "UINT32", "UINT64"} ->
            IF val.numeric > 0 THEN [s EXCEPT !.Error = 1] ELSE s
      [] val.vtype = "INVALID" -> s
      [] OTHER -> [s EXCEPT !.Error = 1]

\* Mutant of setError: an integer is an error when it is not negative.
setError_nonNegative(s, val) ==
    CASE val.vtype = "STRING" ->
            [s EXCEPT !.Error = 1, !.Meta = MapSet(s.Meta, extErrorMsg, val.stringly)]
      [] val.vtype = "BOOL" ->
            IF AsBool(val) THEN [s EXCEPT !.Error = 1] ELSE [s EXCEPT !.Error = 0]
      [] val.vtype \in {"INT32", "INT64", "UINT32", "UINT64"} ->
            IF val.numeric >= 0 THEN [s EXCEPT !.Error = 1] ELSE [s EXCEPT !.Error = 0]
      [] val.vtype = "INVALID" -> [s EXCEPT !.Error = 0]
      [] OTHER -> [s EXCEPT !.Error = 1]

setError(s, val) ==
    CASE val.vtype = "STRING" ->
            [s EXCEPT !.Error = 1, !.Meta = MapSet(s.Meta, extErrorMsg, val.stringly)]
      [] val.vtype = "BOOL" ->
            IF AsBool(val) THEN [s EXCEPT !.Error = 1] ELSE [s EXCEPT !.Error = 0]
      [] val.vtype \in {"INT32", "INT64", "UINT32", "UINT64"} ->
            IF val.numeric > 0 THEN [s EXCEPT !.Error = 1] ELSE [s EXCEPT !.Error = 0]
      [] val.vtype = "INVALID" -> [s EXCEPT !.Error = 0]
      [] OTHER -> [s EXCEPT !.Error = 1]

\* Mutant of setTag: a numeric value is stored as a metric and as a tag.
setTag_numericBoth(s, key, val) ==
    IF key = extError THEN setError(s, val)
    ELSE CASE val.vtype = "STRING" -> setStringTag(s, key, val.stringly)
           [] val.vtype = "BOOL" ->
                 IF AsBool(val) THEN setStringTag(s, key, "true")
                 ELSE setStringTag(s, key, "false")
           [] val.vtype \in {"FLOAT32", "FLOAT64", "INT32", "INT64", "UINT32", "UINT64"} ->
                 setStringTag(setMetric(s, key, val.numeric), key, FormatInt(val.numeric))
           [] val.vtype = "ARRAY" -> setStringTag(s, key, SprintfV(val.array))
           [] OTHER -> s

setTag(s, key, val) ==
    IF key = extError THEN setError(s, val)
    ELSE CASE val.vtype = "STRING" -> setStringTag(s, key, val.stringly)
           [] val.vtype = "BOOL" ->
                 IF AsBool(val) THEN setStringTag(s, key, "true")
                 ELSE setStringTag(s, key, "false")
           [] val.vtype \in {"FLOAT32", "FLOAT64", "INT32", "INT64", "UINT32", "UINT64"} ->
                 setMetric(s, key, val.numeric)
           [] val.vtype = "ARRAY" -> setStringTag(s, key, SprintfV(val.array))
           [] OTHER -> s

\* for _, attr := range attrs { setTag(span, string(attr.Key), attr.Value) }
RECURSIVE setTags(_, _)
setTags(s, attrs) ==
    IF Len(attrs) = 0 THEN s
    ELSE setTags(setTag(s, attrs[1].Key, attrs[1].Value), Tail(attrs))

(***************************************************************************)
(* convertSpan.                                                            *)
(***************************************************************************)
\* Mutant of newSpan: the parent identifier is read from the span identifier.
newSpan_parentFromSpanID(e, s) ==
    [TraceID |-> BigEndianUint64(SubSeq(s.TraceID, 9, 16)),
     SpanID |-> BigEndianUint64(s.SpanID),
     ParentID |-> IF IsValid(s.SpanID) THEN BigEndianUint64(s.SpanID) ELSE Zero64,
     Name |-> "opentelemetry",
     Resource |-> s.Name,
     Service |-> e.Service,
     Type |-> "",
     Start |-> s.StartTime,
     Duration |-> s.EndTime - s.StartTime,
     Error |-> 0,
     Metrics |-> EmptyMetrics,
     Meta |-> EmptyMeta]

\* span := &ddSpan{...}; ParentID only when the parent span id is valid
newSpan(e, s) ==
    [TraceID |-> BigEndianUint64(SubSeq(s.TraceID, 9, 16)),
     SpanID |-> BigEndianUint64(s.SpanID),
     ParentID |-> IF IsValid(s.ParentSpanID) THEN BigEndianUint64(s.ParentSpanID) ELSE Zero64,
     Name |-> "opentelemetry",
     Resource |-> s.Name,
     Service |-> e.Service,
     Type |-> "",
     Start |-> s.StartTime,
     Duration |-> s.EndTime - s.StartTime,
     Error |-> 0,
     Metrics |-> EmptyMetrics,
     Meta |-> EmptyMeta]

\* code, ok := statusCodes[s.StatusCode]; if !ok { ... }
\* Mutant of codeOf: a code missing from the table defaults to a client-error class.
codeOf_unknownAsBadRequest(c) ==
    IF c \in DOMAIN statusCodes THEN statusCodes[c]
    ELSE [message |-> "ERR_CODE_" \o FormatInt(c), status |-> 400]

codeOf(c) ==
    IF c \in DOMAIN statusCodes THEN statusCodes[c]
    ELSE [message |-> "ERR_CODE_" \o FormatInt(c), status |-> 500]

\* Mutant of defaultKind: every failure class (4xx and 5xx) sets the error flag.
defaultKind_anyFailure(s0, code) ==
    IF code.status \div 100 >= 4 THEN [s0 EXCEPT !.Error = 1] ELSE s0

\* default: of switch s.SpanKind
defaultKind(s0, code) ==
    IF code.status \div 100 = 5 THEN [s0 EXCEPT !.Error = 1] ELSE s0

\* Mutant of applyKind: the client case falls through to default as well.
applyKind_clientFallsThrough(s0, kind, code) ==
    CASE kind = SpanKindClient ->
            IF code.status \div 100 = 5
            THEN [s0 EXCEPT !.Type = "client", !.Error = 1]
            ELSE [s0 EXCEPT !.Type = "client"]
      [] kind = SpanKindServer ->
            IF code.status \div 100 = 5
            THEN [s0 EXCEPT !.Type = "server", !.Error = 1]
            ELSE [s0 EXCEPT !.Type = "server"]
      [] OTHER -> IF code.status \div 100 = 5 THEN [s0 EXCEPT !.Error = 1] ELSE s0

\* switch s.SpanKind (the server case falls through to default)
applyKind(s0, kind, code) ==
    CASE kind = SpanKindClient ->
            IF code.status \div 100 = 4
            THEN [s0 EXCEPT !.Type = "client", !.Error = 1]
            ELSE [s0 EXCEPT !.Type = "client"]
      [] kind = SpanKindServer -> defaultKind([s0 EXCEPT !.Type = "server"], code)
      [] OTHER -> defaultKind(s0, code)

\* Mutant of errorTags: the error type tag is written whatever the error flag.
errorTags_ungated(s0, code, msg) ==
    LET s1 == [s0 EXCEPT !.Meta = MapSet(s0.Meta, extErrorType, code.message)]
    IN  IF s0.Error = 1 /\ msg # ""
        THEN [s1 EXCEPT !.Meta = MapSet(s1.Meta, extErrorMsg, msg)]
        ELSE s1

\* if span.Error == 1 { error type and error message tags }
errorTags(s0, code, msg) ==
    IF s0.Error = 1
    THEN LET s1 == [s0 EXCEPT !.Meta = MapSet(s0.Meta, extErrorType, code.message)]
         IN  IF msg # "" THEN [s1 EXCEPT !.Meta = MapSet(s1.Meta, extErrorMsg, msg)] ELSE s1
    ELSE s0

\* Mutant of statusTags: the status tags are written for spans in error only.
statusTags_onlyOnError(s0, statusCode, code, msg) ==
    IF s0.Error = 1
    THEN LET s1 == [s0 EXCEPT !.Meta = MapSet(s0.Meta, keyStatusCode, FormatInt(statusCode))]
             s2 == [s1 EXCEPT !.Meta = MapSet(s1.Meta, keyStatus, code.message)]
         IN  IF msg # ""
             THEN [s2 EXCEPT !.Meta = MapSet(s2.Meta, keyStatusDescription, msg)]
             ELSE s2
    ELSE s0

\* the three status tags
statusTags(s0, statusCode, code, msg) ==
    LET s1 == [s0 EXCEPT !.Meta = MapSet(s0.Meta, keyStatusCode, FormatInt(statusCode))]
        s2 == [s1 EXCEPT !.Meta = MapSet(s1.Meta, keyStatus, code.message)]
    IN  IF msg # "" THEN [s2 EXCEPT !.Meta = MapSet(s2.Meta, keyStatusDescription, msg)] ELSE s2

\* Mutant of convertSpan: each of the two lists is ranged over from its last
\* entry to its first.
convertSpan_listsBackwards(e, s) ==
    LET Backwards(q) == [i \in 1..Len(q) |-> q[Len(q) + 1 - i]]
        code == codeOf(s.StatusCode)
        s1 == applyKind(newSpan(e, s), s.SpanKind, code)
        s2 == errorTags(s1, code, s.StatusMessage)
        s3 == statusTags(s2, s.StatusCode, code, s.StatusMessage)
        s4 == setTags(s3, Backwards(e.GlobalTags))
    IN  setTags(s4, Backwards(s.Attributes))

convertSpan(e, s) ==
    LET code == codeOf(s.StatusCode)
        s1 == applyKind(newSpan(e, s), s.SpanKind, code)
        s2 == errorTags(s1, code, s.StatusMessage)
        s3 == statusTags(s2, s.StatusCode, code, s.StatusMessage)
        s4 == setTags(s3, e.GlobalTags)
    IN  setTags(s4, s.Attributes)

(***************************************************************************)
(* Input domains.                                                          *)
(***************************************************************************)
KeyValue(k, v) == [Key |-> k, Value |-> v]

\* sequences over S of length at most n
BoundedSeq(S, n) == UNION {[1..m -> S] : m \in 0..n}

SpanKinds == {SpanKindUnspecified, SpanKindInternal, SpanKindServer, SpanKindClient}

StatusCodes == 0..MaxStatusCode

StatusMessages == {"", "status-msg"}

ParentSpanIDs ==
    {<<0, 0, 0, 0, 0, 0, 0, 0>>, <<0, 0, 0, 0, 0, 0, 1, 0>>, <<8, 7, 6, 5, 4, 3, 2, 1>>}

GlobalTagDomain ==
    {KeyValue("key1", StringValue("value1")),
     KeyValue("key", StringValue("global")),
     KeyValue("key", Int64Value(7)),
     KeyValue(extError, StringValue("global-error")),
     KeyValue(extError, StringValue("global-error2"))}

AttributeDomain ==
    {KeyValue(extError, BoolValue(TRUE)),
     KeyValue(extError, BoolValue(FALSE)),
     KeyValue(extError, Float32Value(0)),
     KeyValue(extErrorMsg, StringValue("abc")),
     KeyValue(extErrorType, StringValue("abc")),
     KeyValue("key", StringValue("abc")),
     KeyValue("key", Int64Value(1)),
     KeyValue(keyStatus, StringValue("abc")),
     KeyValue(keyStatusCode, Int64Value(1)),
     KeyValue(keyStatusDescription, StringValue("abc")),
     KeyValue(extServiceName, StringValue("other-service")),
     KeyValue(extSamplingPriority, Int64Value(-1))}

Options == [Service : {"my-service"}, GlobalTags : BoundedSeq(GlobalTagDomain, MaxGlobalTags)]

SpanData ==
    [TraceID : {<<1, 2, 3, 4, 5, 6, 7, 8, 9, 10, 11, 12, 13, 14, 15, 16>>},
     SpanID : {<<1, 2, 3, 4, 5, 6, 7, 8>>},
     ParentSpanID : ParentSpanIDs,
     SpanKind : SpanKinds,
     Name : {"/a/b"},
     StartTime : {1000},
     EndTime : {11000},
     Attributes : BoundedSeq(AttributeDomain, MaxAttributes),
     StatusCode : StatusCodes,
     StatusMessage : StatusMessages]

\* the zero values of the Go types
zeroSpanData ==
    [TraceID |-> [i \in 1..16 |-> 0], SpanID |-> [i \in 1..8 |-> 0],
     ParentSpanID |-> [i \in 1..8 |-> 0], SpanKind |-> SpanKindUnspecified, Name |-> "",
     StartTime |-> 0, EndTime |-> 0, Attributes |-> <<>>, StatusCode |-> 0,
     StatusMessage |-> ""]

\* &ddSpan{Meta: map[string]string{}, Metrics: map[string]float64{}}
testSpan ==
    [TraceID |-> Zero64, SpanID |-> Zero64, ParentID |-> Zero64, Name |-> "", Resource |-> "",
     Service |-> "", Type |-> "", Start |-> 0, Duration |-> 0, Error |-> 0,
     Metrics |-> EmptyMetrics, Meta |-> EmptyMeta]

noCall == [fn |-> "", key |-> "", val |-> InvalidValue]

\* keys and values handed to the setters directly, as the unit tests do
TagKeys ==
    {extError, extErrorMsg, extErrorType, extServiceName, extResourceName, extSpanType,
     keySpanName, extAnalyticsEvent, extEventSampleRate, extSamplingPriority,
     keySamplingPriority, keyStatus, keyStatusCode, "key"}

TagStrings == {"abc", "false", "true", ""}

TagArrays == {<<>>, <<1, 2>>}

TagValues ==
    {StringValue(v) : v \in TagStrings}
        \cup {BoolValue(TRUE), BoolValue(FALSE), InvalidValue}
        \cup {Int32Value(i) : i \in {-1, 0, 1}}
        \cup {Int64Value(i) : i \in {-1, 0, 12}}
        \cup {Uint32Value(i) : i \in {0, 1}}
        \cup {Uint64Value(i) : i \in {0, 1}}
        \cup {Float32Value(f) : f \in {0, 1}}
        \cup {Float64Value(f) : f \in {-1, 0, 12}}
        \cup {ArrayValue(a) : a \in TagArrays}

TagMetrics == {-1, 0, 1, 12}

\* the records a setter is called on: the test's empty span, and spans as
\* convertSpan holds them while it applies attributes
StartData ==
    [TraceID : {<<1, 2, 3, 4, 5, 6, 7, 8, 9, 10, 11, 12, 13, 14, 15, 16>>},
     SpanID : {<<1, 2, 3, 4, 5, 6, 7, 8>>},
     ParentSpanID : {<<0, 0, 0, 0, 0, 0, 0, 0>>},
     SpanKind : {SpanKindServer, SpanKindClient},
     Name : {"/a/b"},
     StartTime : {1000},
     EndTime : {11000},
     Attributes : {<<>>,
                   <<KeyValue("key", StringValue("old"))>>,
                   <<KeyValue("key", Int64Value(5)),
                     KeyValue(extAnalyticsEvent, BoolValue(TRUE)),
                     KeyValue(extSamplingPriority, Int64Value(2))>>},
     StatusCode : {0, 1, 13},
     StatusMessage : StatusMessages]

StartSpans ==
    {testSpan} \cup
        {convertSpan([Service |-> "my-service", GlobalTags |-> <<>>], s) : s \in StartData}

(***************************************************************************)
(* Specification: an exporter converting spans.                            *)
(***************************************************************************)
Init ==
    /\ opts \in Options
    /\ sd = zeroSpanData
    /\ span = testSpan
    /\ before = testSpan
    /\ call = noCall
    /\ calls = 0

\* e.convertSpan(s): one conversion per behaviour, convertSpan keeps no state
\* from one call to the next
ConvertSpan ==
    /\ calls = 0
    /\ \E s \in SpanData :
        /\ sd' = s
        /\ span' = convertSpan(opts, s)
        /\ call' = [fn |-> "convertSpan", key |-> "", val |-> InvalidValue]
        /\ calls' = calls + 1
        /\ UNCHANGED <<opts, before>>

Next == ConvertSpan

Spec == Init /\ [][Next]_vars

(***************************************************************************)
(* Specification: the setters called directly on a span, one call per      *)
(* behaviour.                                                              *)
(***************************************************************************)
InitTag ==
    /\ opts = [Service |-> "my-service", GlobalTags |-> <<>>]
    /\ sd = zeroSpanData
    /\ span \in StartSpans
    /\ before = span
    /\ call = noCall
    /\ calls = 0

\* setTag(span, key, val)
SetTag ==
    /\ calls = 0
    /\ \E k \in TagKeys, v \in TagValues :
        /\ span' = setTag(span, k, v)
        /\ call' = [fn |-> "setTag", key |-> k, val |-> v]
    /\ before' = span
    /\ calls' = calls + 1
    /\ UNCHANGED <<opts, sd>>

\* setStringTag(span, key, v)
SetStringTag ==
    /\ calls = 0
    /\ \E k \in TagKeys, v \in TagStrings :
        /\ span' = setStringTag(span, k, v)
        /\ call' = [fn |-> "setStringTag", key |-> k, val |-> StringValue(v)]
    /\ before' = span
    /\ calls' = calls + 1
    /\ UNCHANGED <<opts, sd>>

\* setMetric(span, key, v)
SetMetric ==
    /\ calls = 0
    /\ \E k \in TagKeys, v \in TagMetrics :
        /\ span' = setMetric(span, k, v)
        /\ call' = [fn |-> "setMetric", key |-> k, val |-> Float64Value(v)]
    /\ before' = span
    /\ calls' = calls + 1
    /\ UNCHANGED <<opts, sd>>

\* setError(span, val)
SetError ==
    /\ calls = 0
    /\ \E v \in TagValues :
        /\ span' = setError(span, v)
        /\ call' = [fn |-> "setError", key |-> extError, val |-> v]
    /\ before' = span
    /\ calls' = calls + 1
    /\ UNCHANGED <<opts, sd>>

NextTag == SetTag \/ SetStringTag \/ SetMetric \/ SetError

SpecTag == InitTag /\ [][NextTag]_vars

(***************************************************************************)
(* Vocabulary of the properties.                                           *)
(***************************************************************************)
Converted == call.fn = "convertSpan"

\* the sequence 'global tags followed by span attributes'
AllTags == opts.GlobalTags \o sd.Attributes

HasKey(attrs, k) == \E i \in 1..Len(attrs) : attrs[i].Key = k

\* the class (status / 100) of the HTTP status the span's status code resolves to
StatusClass == codeOf(sd.StatusCode).status \div 100

HasTag(k) == k \in DOMAIN span.Meta

(***************************************************************************)
(* C1.                                                                     *)
(***************************************************************************)
\* C1 as stated: for every client span, whatever its global tags and
\* attributes, the error flag is 1 when the status resolves to a 4xx class and
\* 0 when it resolves to any other class.
C1_AsStated ==
    (Converted /\ sd.SpanKind = SpanKindClient)
        => /\ StatusClass = 4 => span.Error = 1
           /\ StatusClass # 4 => span.Error = 0

\* C1 (amended): for every client span none of whose global tags and
\* attributes has the error key, the error flag is 1 when the status resolves
\* to a 4xx class and 0 when it resolves to any other class (2xx, 5xx).
C1_ClientError ==
    (Converted /\ sd.SpanKind = SpanKindClient /\ ~HasKey(AllTags, extError))
        => /\ StatusClass = 4 => span.Error = 1
           /\ StatusClass # 4 => span.Error = 0

C1_Witness ==
    /\ Converted
    /\ sd.SpanKind = SpanKindClient
    /\ ~HasKey(AllTags, extError)
    /\ Len(opts.GlobalTags) > 0
    /\ Len(sd.Attributes) > 0
    /\ StatusClass = 4
    /\ span.Error = 1

(***************************************************************************)
(* C2.                                                                     *)
(***************************************************************************)
\* C2 as stated: for every server or unspecified-kind span with no error-keyed
\* attribute, the error flag is 1 iff the status resolves to a 5xx class, and a
\* 4xx class yields error flag 0 and no error-type or error-message tag.
C2_AsStated ==
    (Converted /\ sd.SpanKind \in {SpanKindServer, SpanKindUnspecified}
        /\ ~HasKey(AllTags, extError))
        => /\ span.Error = 1 <=> StatusClass = 5
           /\ StatusClass = 4 =>
                /\ span.Error = 0
                /\ ~HasTag(extErrorType)
                /\ ~HasTag(extErrorMsg)

\* C2 (amended): for every server or unspecified-kind span with no error-keyed
\* attribute, the error flag is 1 iff the status resolves to a 5xx class; a 4xx
\* class yields error flag 0, and no error-type or error-message tag unless a
\* global tag or attribute has the error-type or error-message key.
C2_ServerError ==
    (Converted /\ sd.SpanKind \in {SpanKindServer, SpanKindUnspecified}
        /\ ~HasKey(AllTags, extError))
        => /\ span.Error \in {0, 1}
           /\ span.Error = 1 <=> StatusClass = 5
           /\ StatusClass = 4 =>
                /\ span.Error = 0
                /\ ~HasKey(AllTags, extErrorType) => ~HasTag(extErrorType)
                /\ ~HasKey(AllTags, extErrorMsg) => ~HasTag(extErrorMsg)

C2_Witness ==
    /\ Converted
    /\ sd.SpanKind = SpanKindServer
    /\ ~HasKey(AllTags, extError)
    /\ Len(sd.Attributes) > 0
    /\ StatusClass = 4
    /\ sd.StatusMessage # ""
    /\ span.Error = 0
    /\ ~HasTag(extErrorType)
    /\ ~HasTag(extErrorMsg)

(***************************************************************************)
(* C3.                                                                     *)
(***************************************************************************)
\* C3 as stated: for every span, the record contains the error-type and
\* error-message tags if and only if its error flag is 1.
C3_AsStated ==
    Converted => ((HasTag(extErrorType) /\ HasTag(extErrorMsg)) <=> span.Error = 1)

\* C3 (amended): for every span none of whose global tags and attributes has
\* the error, error-type or error-message key, the record contains the
\* error-type tag (the resolved status message) if and only if its error flag
\* is 1, and the error-message tag (the status message) if and only if its
\* error flag is 1 and the status message is not empty.
C3_ErrorTags ==
    (Converted /\ ~HasKey(AllTags, extError) /\ ~HasKey(AllTags, extErrorType)
        /\ ~HasKey(AllTags, extErrorMsg))
        => /\ HasTag(extErrorType) <=> span.Error = 1
           /\ HasTag(extErrorMsg) <=> (span.Error = 1 /\ sd.StatusMessage # "")
           /\ HasTag(extErrorType) => span.Meta[extErrorType] = codeOf(sd.StatusCode).message
           /\ HasTag(extErrorMsg) => span.Meta[extErrorMsg] = sd.StatusMessage

C3_Witness ==
    /\ Converted
    /\ ~HasKey(AllTags, extError)
    /\ ~HasKey(AllTags, extErrorType)
    /\ ~HasKey(AllTags, extErrorMsg)
    /\ Len(AllTags) > 1
    /\ span.Error = 1
    /\ HasTag(extErrorType)
    /\ HasTag(extErrorMsg)

(***************************************************************************)
(* C4.                                                                     *)
(***************************************************************************)
\* C4: every record has the status-code and status tags, and the
\* status-description tag whenever the status message is not empty; when no
\* global tag and no attribute uses one of the three keys, their values are
\* the decimal status code, the resolved status message and the span's status
\* message, and the status-description tag is absent when the status message
\* is empty.
C4_StatusTags ==
    Converted
        => /\ HasTag(keyStatusCode)
           /\ HasTag(keyStatus)
           /\ sd.StatusMessage # "" => HasTag(keyStatusDescription)
           /\ (~HasKey(AllTags, keyStatusCode) /\ ~HasKey(AllTags, keyStatus)
                    /\ ~HasKey(AllTags, keyStatusDescription))
                => /\ span.Meta[keyStatusCode] = ToString(sd.StatusCode)
                   /\ span.Meta[keyStatus] = codeOf(sd.StatusCode).message
                   /\ sd.StatusMessage # ""
                        => span.Meta[keyStatusDescription] = sd.StatusMessage
                   /\ sd.StatusMessage = "" => ~HasTag(keyStatusDescription)

C4_Witness ==
    /\ Converted
    /\ span.Error = 0
    /\ sd.StatusCode = 13
    /\ sd.SpanKind = SpanKindClient
    /\ sd.StatusMessage = ""
    /\ ~HasKey(AllTags, keyStatusCode)
    /\ ~HasKey(AllTags, keyStatus)
    /\ ~HasKey(AllTags, keyStatusDescription)
    /\ span.Meta[keyStatusCode] = "13"
    /\ span.Meta[keyStatus] = "INTERNAL"
    /\ ~HasTag(keyStatusDescription)

(***************************************************************************)
(* Destinations: what one global tag or attribute is to write, stated from *)
(* the dispatch rules.  A destination is a slot (the tag or metric of a    *)
(* key, a structural field, the error flag) and the value to be found      *)
(* there: str for tags and fields, num for metrics and the error flag.     *)
(***************************************************************************)
Dest(slot, key, str, num) == [slot |-> slot, key |-> key, str |-> str, num |-> num]

StringLike(v) == v.vtype \in {"STRING", "BOOL", "ARRAY"}

Numeric(v) == v.vtype \in {"INT32", "INT64", "UINT32", "UINT64", "FLOAT32", "FLOAT64"}

\* the text of the arrays of TagArrays
ArrayText(a) == IF a = <<>> THEN "[]" ELSE "[1 2]"

TextOf(v) ==
    CASE v.vtype = "STRING" -> v.stringly
      [] v.vtype = "BOOL" -> IF v.numeric = 1 THEN "true" ELSE "false"
      [] v.vtype = "ARRAY" -> ArrayText(v.array)

\* the error flag an error-keyed value asks for
ErrorOf(v) ==
    CASE v.vtype = "STRING" -> 1
      [] v.vtype = "BOOL" -> IF v.numeric = 1 THEN 1 ELSE 0
      [] v.vtype \in {"INT32", "INT64", "UINT32", "UINT64"} -> IF v.numeric > 0 THEN 1 ELSE 0
      [] v.vtype = "INVALID" -> 0
      [] OTHER -> 1

Dests(kv) ==
    IF kv.Key = extError
    THEN {Dest("Error", "", "", ErrorOf(kv.Value))}
            \cup (IF kv.Value.vtype = "STRING"
                  THEN {Dest("Meta", extErrorMsg, kv.Value.stringly, 0)}
                  ELSE {})
    ELSE IF StringLike(kv.Value)
    THEN CASE kv.Key = extServiceName -> {Dest("Service", "", TextOf(kv.Value), 0)}
           [] kv.Key = extResourceName -> {Dest("Resource", "", TextOf(kv.Value), 0)}
           [] kv.Key = extSpanType -> {Dest("Type", "", TextOf(kv.Value), 0)}
           [] kv.Key = keySpanName -> {Dest("Name", "", TextOf(kv.Value), 0)}
           [] kv.Key = extAnalyticsEvent ->
                 {Dest("Metrics", extEventSampleRate, "",
                       IF TextOf(kv.Value) = "false" THEN 0 ELSE 1)}
           [] OTHER -> {Dest("Meta", kv.Key, TextOf(kv.Value), 0)}
    ELSE IF Numeric(kv.Value)
    THEN {Dest("Metrics",
               IF kv.Key = extSamplingPriority THEN keySamplingPriority ELSE kv.Key,
               "", kv.Value.numeric)}
    ELSE {}

Slots(kv) == {<<d.slot, d.key>> : d \in Dests(kv)}

\* the record s holds destination d
Holds(s, d) ==
    CASE d.slot = "Meta" -> d.key \in DOMAIN s.Meta /\ s.Meta[d.key] = d.str
      [] d.slot = "Metrics" -> d.key \in DOMAIN s.Metrics /\ s.Metrics[d.key] = d.num
      [] d.slot = "Service" -> s.Service = d.str
      [] d.slot = "Resource" -> s.Resource = d.str
      [] d.slot = "Type" -> s.Type = d.str
      [] d.slot = "Name" -> s.Name = d.str
      [] d.slot = "Error" -> s.Error = d.num

\* the error signal the status alone gives
StatusError ==
    IF sd.SpanKind = SpanKindClient THEN StatusClass = 4 ELSE StatusClass = 5

\* the keys of the tags convertSpan writes from the status
StatusTagKeys ==
    {keyStatusCode, keyStatus}
        \cup (IF sd.StatusMessage # "" THEN {keyStatusDescription} ELSE {})
        \cup (IF StatusError THEN {extErrorType} ELSE {})
        \cup (IF StatusError /\ sd.StatusMessage # "" THEN {extErrorMsg} ELSE {})

\* the keys written as tags, and as metrics, by the global tags and attributes
TagKeysWritten ==
    {d.key : d \in {x \in UNION {Dests(AllTags[i]) : i \in 1..Len(AllTags)} : x.slot = "Meta"}}

MetricKeysWritten ==
    {d.key : d \in {x \in UNION {Dests(AllTags[i]) : i \in 1..Len(AllTags)} : x.slot = "Metrics"}}

\* the global tags whose key no span attribute uses
UnsharedGlobalTags ==
    LET Keep(g) == ~HasKey(sd.Attributes, g.Key) IN SelectSeq(opts.GlobalTags, Keep)

(***************************************************************************)
(* C5.                                                                     *)
(***************************************************************************)
\* C5 as stated: global tags are applied before span attributes; for every key
\* carried by both, the record reflects the span attribute's value and nothing
\* of the global tag's value remains (the record is the one converted without
\* the shadowed global tags), and a global tag whose key no attribute uses is
\* present in the record.
C5_AsStated ==
    Converted
        => /\ span = convertSpan([opts EXCEPT !.GlobalTags = UnsharedGlobalTags], sd)
           /\ \A i \in 1..Len(UnsharedGlobalTags) :
                /\ Dests(UnsharedGlobalTags[i]) # {}
                /\ \A d \in Dests(UnsharedGlobalTags[i]) : Holds(span, d)

\* C5 (amended): global tags are applied, in the configured order, before span
\* attributes, in source order, and every destination (a tag, a metric, a
\* structural field, the error flag) holds the value of the last entry of the
\* sequence 'global tags followed by span attributes' that writes it.  For a
\* key carried by both a global tag and a span attribute, the destination the
\* attribute writes holds the attribute's value; what the global tag wrote to a
\* destination the attribute does not write remains.  A global tag is present
\* in the record when no later entry writes its destination.
C5_LastWriteWins ==
    Converted
        => \A i \in 1..Len(AllTags) :
             \A d \in Dests(AllTags[i]) :
                (\A j \in (i + 1)..Len(AllTags) : <<d.slot, d.key>> \notin Slots(AllTags[j]))
                    => Holds(span, d)

\* Two global tags write the error-message tag and two span attributes write
\* the error flag the global tags wrote: within each list the later entry is
\* the one found, and the attributes' flag replaces the global tags'.
C5_Witness ==
    /\ Converted
    /\ ~StatusError
    /\ opts.GlobalTags = <<KeyValue(extError, StringValue("global-error")),
                           KeyValue(extError, StringValue("global-error2"))>>
    /\ sd.Attributes = <<KeyValue(extError, BoolValue(TRUE)),
                         KeyValue(extError, BoolValue(FALSE))>>
    /\ span.Meta[extErrorMsg] = "global-error2"
    /\ span.Error = 0

(***************************************************************************)
(* C6.                                                                     *)
(***************************************************************************)
\* C6 as stated: in every record returned by convertSpan no key is present in
\* both the tag mapping and the metric mapping.
C6_AsStated == Converted => (DOMAIN span.Meta) \cap (DOMAIN span.Metrics) = {}

\* C6 (amended): each global tag or attribute is stored in one mapping at most
\* (a tag or a metric, never both); the tags of the record are those written
\* from the status and by the entries stored as tags, its metrics those of the
\* entries stored as metrics, so a key is present in both mappings exactly when
\* one writer stored it as a tag and another entry stored it as a metric.
C6_OneSlotPerEntry ==
    Converted
        => /\ DOMAIN span.Meta = StatusTagKeys \cup TagKeysWritten
           /\ DOMAIN span.Metrics = MetricKeysWritten
           /\ (DOMAIN span.Meta) \cap (DOMAIN span.Metrics)
                = (StatusTagKeys \cup TagKeysWritten) \cap MetricKeysWritten
           /\ \A i \in 1..Len(AllTags) :
                Cardinality({d \in Dests(AllTags[i]) : d.slot \in {"Meta", "Metrics"}}) <= 1

C6_Witness ==
    /\ Converted
    /\ Len(opts.GlobalTags) > 0
    /\ Len(sd.Attributes) > 0
    /\ TagKeysWritten # {}
    /\ MetricKeysWritten # {}
    /\ (DOMAIN span.Meta) \cap (DOMAIN span.Metrics) = {}

(***************************************************************************)
(* Effects of one call of a setter, from the record before to the record   *)
(* after.                                                                  *)
(***************************************************************************)
StructuralFields ==
    {"TraceID", "SpanID", "ParentID", "Name", "Resource", "Service", "Type", "Start",
     "Duration"}

\* every structural field but those of fs is as before
FieldsKept(b, s, fs) == \A f \in StructuralFields \ fs : s[f] = b[f]

\* the map after is the map before with key k set to v, and nothing else
MapIsSet(mb, ms, k, v) ==
    /\ DOMAIN ms = (DOMAIN mb) \cup {k}
    /\ ms[k] = v
    /\ \A x \in (DOMAIN mb) \ {k} : ms[x] = mb[x]

\* the String Rule applied to key k and string v
StringRuleEffect(b, s, k, v) ==
    /\ s.Error = b.Error
    /\ CASE k = extServiceName ->
                s.Service = v /\ FieldsKept(b, s, {"Service"})
                    /\ s.Meta = b.Meta /\ s.Metrics = b.Metrics
          [] k = extResourceName ->
                s.Resource = v /\ FieldsKept(b, s, {"Resource"})
                    /\ s.Meta = b.Meta /\ s.Metrics = b.Metrics
          [] k = extSpanType ->
                s.Type = v /\ FieldsKept(b, s, {"Type"})
                    /\ s.Meta = b.Meta /\ s.Metrics = b.Metrics
          [] k = keySpanName ->
                s.Name = v /\ FieldsKept(b, s, {"Name"})
                    /\ s.Meta = b.Meta /\ s.Metrics = b.Metrics
          [] k = extAnalyticsEvent ->
                /\ s.Meta = b.Meta
                /\ FieldsKept(b, s, {})
                /\ MapIsSet(b.Metrics, s.Metrics, extEventSampleRate,
                            IF v = "false" THEN 0 ELSE 1)
          [] OTHER ->
                /\ MapIsSet(b.Meta, s.Meta, k, v)
                /\ FieldsKept(b, s, {})
                /\ s.Metrics = b.Metrics

(***************************************************************************)
(* C7.                                                                     *)
(***************************************************************************)
\* C7: setStringTag on key k and string v overwrites the service, resource,
\* span type or operation name for the four structural keys and writes no tag
\* or metric; for the analytics-event key it writes no tag and sets one metric
\* to 1 when v is not "false" and to 0 when it is; for any other key it sets
\* tag k to v, overwriting a prior tag, and changes nothing else.
C7_StringRule ==
    call.fn = "setStringTag" => StringRuleEffect(before, span, call.key, call.val.stringly)

C7_Witness ==
    /\ call.fn = "setStringTag"
    /\ call.key = keyStatus
    /\ call.val.stringly = "abc"
    /\ keyStatus \in DOMAIN before.Meta
    /\ before.Meta[keyStatus] = "CANCELLED"
    /\ span.Meta[keyStatus] = "abc"
    /\ before.Metrics # EmptyMetrics

(***************************************************************************)
(* C8.                                                                     *)
(***************************************************************************)
\* C8: setTag on a key other than the error key routes by the type of the
\* value: string and bool go through the String Rule (bool as "true" or
\* "false"); a signed, unsigned or float value is stored only as a metric under
\* its own key, the sampling-priority key under the internal key and not under
\* its own name; an array goes through the String Rule as text; an invalid
\* value leaves every field, tag and metric unchanged.
C8_Dispatch ==
    (call.fn = "setTag" /\ call.key # extError)
        => IF StringLike(call.val)
           THEN StringRuleEffect(before, span, call.key, TextOf(call.val))
           ELSE IF Numeric(call.val)
           THEN /\ span.Meta = before.Meta
                /\ span.Error = before.Error
                /\ FieldsKept(before, span, {})
                /\ MapIsSet(before.Metrics, span.Metrics,
                            IF call.key = extSamplingPriority
                            THEN keySamplingPriority ELSE call.key,
                            call.val.numeric)
           ELSE span = before

C8_Witness ==
    /\ call.fn = "setTag"
    /\ call.key = extSamplingPriority
    /\ call.val = Int64Value(-1)
    /\ keySamplingPriority \in DOMAIN before.Metrics
    /\ before.Metrics[keySamplingPriority] = 2
    /\ span.Metrics[keySamplingPriority] = -1
    /\ extSamplingPriority \notin DOMAIN span.Metrics

(***************************************************************************)
(* C9.                                                                     *)
(***************************************************************************)
\* C9: an error-keyed attribute of any type sets the error flag from the value
\* alone, whatever the flag was before: string gives 1 and stores the string as
\* the error-message tag; bool gives 1 if true else 0; an integer gives 1 if
\* strictly positive else 0; invalid gives 0; any other type (float, array)
\* gives 1.  No tag and no metric is written under the error key and no
\* structural field changes.
C9_ErrorRule ==
    (call.fn = "setError" \/ (call.fn = "setTag" /\ call.key = extError))
        => /\ span.Error = ErrorOf(call.val)
           /\ span.Metrics = before.Metrics
           /\ FieldsKept(before, span, {})
           /\ IF call.val.vtype = "STRING"
              THEN MapIsSet(before.Meta, span.Meta, extErrorMsg, call.val.stringly)
              ELSE span.Meta = before.Meta
           /\ extError \in DOMAIN span.Meta <=> extError \in DOMAIN before.Meta
           /\ extError \in DOMAIN span.Metrics <=> extError \in DOMAIN before.Metrics

C9_Witness ==
    /\ call.fn = "setTag"
    /\ call.key = extError
    /\ call.val = Int64Value(0)
    /\ before.Error = 1
    /\ extErrorMsg \in DOMAIN before.Meta
    /\ span.Error = 0
    /\ span.Meta = before.Meta

(***************************************************************************)
(* C10.                                                                    *)
(***************************************************************************)
\* C10: the parent identifier of the record is zero if and only if the parent
\* span identifier of the span is all zero bytes; when it is not, the parent
\* identifier is the big-endian value of its eight bytes (byte 2i-1 and byte 2i
\* are the high and low byte of limb i).
C10_ParentID ==
    Converted
        => /\ span.ParentID = Zero64 <=> (\A i \in 1..8 : sd.ParentSpanID[i] = 0)
           /\ \A i \in 1..4 :
                /\ span.ParentID[i] \div 256 = sd.ParentSpanID[2 * i - 1]
                /\ span.ParentID[i] % 256 = sd.ParentSpanID[2 * i]

C10_Witness ==
    /\ Converted
    /\ sd.ParentSpanID = <<0, 0, 0, 0, 0, 0, 1, 0>>
    /\ span.ParentID = <<0, 0, 0, 256>>
    /\ span.SpanID # span.ParentID

(***************************************************************************)
(* C11.                                                                    *)
(***************************************************************************)
\* the message synthesized for a status code missing from the table
SynthesizedMessage == "ERR_CODE_" \o ToString(sd.StatusCode)

UnknownCode == sd.StatusCode \notin 0..16

\* C11 as stated: for every status code that is not in the table the resolved
\* message is "ERR_CODE_" followed by the decimal code and the resolved class
\* is 500, and absent an error-keyed attribute the record has error flag 1 and
\* its error-type tag and status tag both equal that message.
C11_AsStated ==
    (Converted /\ UnknownCode)
        => /\ codeOf(sd.StatusCode) = [message |-> SynthesizedMessage, status |-> 500]
           /\ ~HasKey(AllTags, extError)
                => /\ span.Error = 1
                   /\ HasTag(extErrorType) /\ span.Meta[extErrorType] = SynthesizedMessage
                   /\ HasTag(keyStatus) /\ span.Meta[keyStatus] = SynthesizedMessage

\* C11 (amended): for every status code that is not in the table the resolved
\* message is "ERR_CODE_" followed by the decimal code and the resolved class
\* is 500; absent an error-keyed attribute, a span of any kind but client has
\* error flag 1 and its error-type tag equals that message unless a global tag
\* or attribute has the error-type key, a client span has error flag 0 and no
\* error-type tag written from the status, and for every kind the status tag
\* equals that message unless a global tag or attribute has the status key.
C11_UnknownCode ==
    (Converted /\ UnknownCode)
        => /\ codeOf(sd.StatusCode) = [message |-> SynthesizedMessage, status |-> 500]
           /\ ~HasKey(AllTags, keyStatus)
                => HasTag(keyStatus) /\ span.Meta[keyStatus] = SynthesizedMessage
           /\ (~HasKey(AllTags, extError) /\ sd.SpanKind # SpanKindClient)
                => /\ span.Error = 1
                   /\ HasTag(extErrorType)
                   /\ ~HasKey(AllTags, extErrorType)
                        => span.Meta[extErrorType] = SynthesizedMessage
           /\ (~HasKey(AllTags, extError) /\ sd.SpanKind = SpanKindClient)
                => /\ span.Error = 0
                   /\ ~HasKey(AllTags, extErrorType) => ~HasTag(extErrorType)

C11_Witness ==
    /\ Converted
    /\ UnknownCode
    /\ sd.SpanKind = SpanKindServer
    /\ ~HasKey(AllTags, extError)
    /\ Len(sd.Attributes) > 0
    /\ span.Error = 1
    /\ span.Meta[extErrorType] = "ERR_CODE_17"
    /\ span.Meta[keyStatus] = "ERR_CODE_17"
    /\ span.Meta[keyStatusCode] = "17"

(***************************************************************************)
(* C12.                                                                    *)
(***************************************************************************)
\* the positions of the error-keyed entries of 'global tags followed by span
\* attributes'
ErrorKeyed == {i \in 1..Len(AllTags) : AllTags[i].Key = extError}

LastErrorKeyed == CHOOSE i \in ErrorKeyed : \A j \in ErrorKeyed : j <= i

\* C12: the error flag of the record is 0 or 1 and is fixed by the last
\* error-keyed entry of 'global tags followed by span attributes': it is the
\* Error Rule's result for that value, whatever the kind, the status code and
\* any earlier error-keyed entry; only when there is no error-keyed entry is it
\* the status-derived signal (client and 4xx, or another kind and 5xx).  The
\* error-type and error-message tags written from the status are still in the
\* record when a later error-keyed entry sets the flag to 0.
C12_LastErrorWins ==
    Converted
        => /\ span.Error \in {0, 1}
           /\ ErrorKeyed # {} => span.Error = ErrorOf(AllTags[LastErrorKeyed].Value)
           /\ ErrorKeyed = {} => span.Error = (IF StatusError THEN 1 ELSE 0)
           /\ StatusError
                => /\ HasTag(extErrorType)
                   /\ sd.StatusMessage # "" => HasTag(extErrorMsg)
                   /\ ~HasKey(AllTags, extErrorType)
                        => span.Meta[extErrorType] = codeOf(sd.StatusCode).message

C12_Witness ==
    /\ Converted
    /\ StatusError
    /\ sd.SpanKind = SpanKindClient
    /\ sd.StatusMessage # ""
    /\ Cardinality(ErrorKeyed) = 2
    /\ ErrorOf(AllTags[1].Value) = 1
    /\ ErrorOf(AllTags[LastErrorKeyed].Value) = 0
    /\ span.Error = 0
    /\ HasTag(extErrorType)
    /\ HasTag(extErrorMsg)

====
